---- MODULE Spec2Model ----
(***************************************************************************)
(* web-ble-kit: the connection pool (ble/connection-pool.ts), the          *)
(* per-characteristic operation queue (ble/operation-queue.ts), the retry  *)
(* engine (ble/transport.ts, withRetry) and the connection state machine   *)
(* (state/state-machine.ts), each as a state machine whose steps are the   *)
(* synchronous sections between two suspension points of the code.         *)
(***************************************************************************)
EXTENDS Integers, Sequences, FiniteSets, TLC

\* ------------------------------------------------------------------ bounds
MaxPool == 2
MaxSessions == 3
MaxReconnects == 2
MaxBurst == 3
MaxOps == 3
MaxCallbacks == 2
MaxAttempts == 3

\* --------------------------------------------------------------- constants
Keys == {"a", "b"}
NoKey == "-"
Gone == "gone"
SessionIds == 1..MaxSessions
NoSession == 0
AdapterKinds == {"plain", "reconnectable"}
NoAdapter == "none"
ReconnectIds == 1..MaxReconnects
QKeys == {"X", "Y"}
OpIds == 1..MaxOps
NoOp == 0
States == {"disconnected", "connecting", "connected", "error"}
CallbackIds == 1..MaxCallbacks
NoCallback == 0
InitialDelays == {1, 5}
MaxDelays == {2, 4}
Multipliers == {1, 2}
\* how many of the known phrases one error message contains at most
MaxPhrases == 2
\* values of sessionId, polls of one session in flight, maxConsecutiveErrors
MaxPollIds == 4
MaxPending == 2
MaxErrors == 2
\* callbacks handed to the emitter, once() wrappers alive at a time
MaxHandlers == 2
MaxWrappers == 2
\* maxAttempts as the caller passes it: negative, zero, or a count of attempts
AttemptLimits == {-1} \cup (0..MaxAttempts)

VARIABLES
  \* createConnectionPool closure state
  maxConnections, autoReconnect,
  sessions, adapters, disconnectCleanups, reconnectingDevices,
  pendingConnections,
  \* the sessions the adapters have produced
  sessKey, subs, alive,
  \* asynchronous calls in flight
  connectTasks, rtask, teardowns,
  \* how often the pool has called disconnect() on each session, the
  \* disconnectAll() call in flight
  tornDown, dall,
  \* the emit() whose subscribers are running, the last call and its outcome
  handler, last,
  \* createOperationQueue closure state
  hasSignal, aborted, cleared, queues, queueDepths,
  \* the operations enqueued so far, the outcome of the last enqueue call
  ops, qlast,
  \* createStateMachine closure state
  state, callbacks, isTransitioning,
  \* where transition() is in its loop over the callbacks, the callback that
  \* is running, the transition being delivered, the last transition() call
  smpc, cbPos, running, outer, smlast,
  \* the callbacks registered when the last transition began, the calls made
  \* for it so far, whether a callback changed the registrations meanwhile,
  \* and how the latest transition that returned went
  delivery,
  \* withRetry options
  maxAttempts, signal, initialDelayMs, maxDelayMs, backoffMultiplier,
  \* withRetry progress: position, p-retry's attemptNumber, the outcome of
  \* every operation() call, the onRetry calls, the settled result
  rpc, attemptNumber, opRunning, history, retryLog, rresult,
  \* the error handed to isTransientBLEError and what it returned
  error, verdict,
  \* createPollManager closure state: the timer (named after the session that
  \* set it), the session counter, the consecutiveErrors of each start(), the
  \* polls of each session that have not settled, the last step
  maxConsecutiveErrors, pollTimer, sessionId, consecutiveErrors, inFlight,
  plast,
  \* createEventEmitter closure state: the listener sets, the once wrappers
  \* by callback, what each wrapper closes over; the (event, callback) pairs
  \* taken off and not registered since; the last step
  listeners, onceWrappers, wrapped, removed, elast

poolVars == <<maxConnections, autoReconnect, sessions, adapters,
              disconnectCleanups, reconnectingDevices, pendingConnections,
              sessKey, subs, alive, connectTasks, rtask, teardowns,
              tornDown, dall, handler, last>>

queueVars == <<hasSignal, aborted, cleared, queues, queueDepths, ops, qlast>>

smVars == <<state, callbacks, isTransitioning, smpc, cbPos, running, outer,
            smlast, delivery>>

retryVars == <<maxAttempts, signal, initialDelayMs, maxDelayMs,
               backoffMultiplier, rpc, attemptNumber, opRunning, history,
               retryLog, rresult>>

errorVars == <<error, verdict>>

pollVars == <<maxConsecutiveErrors, pollTimer, sessionId, consecutiveErrors,
              inFlight, plast>>

emitterVars == <<listeners, onceWrappers, wrapped, removed, elast>>

vars == <<poolVars, queueVars, smVars, retryVars, errorVars, pollVars,
          emitterVars>>

\* what the steps of one component leave alone
OtherThanPool ==
  <<queueVars, smVars, retryVars, errorVars, pollVars, emitterVars>>
OtherThanQueue ==
  <<poolVars, smVars, retryVars, errorVars, pollVars, emitterVars>>
OtherThanSm ==
  <<poolVars, queueVars, retryVars, errorVars, pollVars, emitterVars>>
OtherThanRetry ==
  <<poolVars, queueVars, smVars, errorVars, pollVars, emitterVars>>
OtherThanErrors ==
  <<poolVars, queueVars, smVars, retryVars, pollVars, emitterVars>>
OtherThanPoll ==
  <<poolVars, queueVars, smVars, retryVars, errorVars, emitterVars>>
OtherThanEmitter ==
  <<poolVars, queueVars, smVars, retryVars, errorVars, pollVars>>

\* ------------------------------------------------------------------ helpers
NoHandler == [type |-> "none", key |-> NoKey]
IdleTask == [st |-> "idle", key |-> NoKey, disc |-> FALSE]
NoCall == [st |-> "idle", awaiting |-> {}, failed |-> FALSE]

\* the last notification the listeners of the pool got for each key, after
\* the emitter.emit calls of one step
Notified(n, emits) ==
  IF emits = <<>> THEN n ELSE [n EXCEPT ![emits[1][2]] = emits[1][1]]

Step(op, key, sess, result, emits, flag) ==
  [op |-> op, key |-> key, sess |-> sess, result |-> result,
   emits |-> emits, flag |-> flag, all |-> "none",
   notified |-> Notified(last.notified, emits)]

NoStep ==
  [op |-> "none", key |-> NoKey, sess |-> NoSession, result |-> "none",
   emits |-> <<>>, flag |-> FALSE, all |-> "none",
   notified |-> [k \in Keys |-> "none"]]

Tracked == {k \in Keys : sessions[k] # NoSession}
connectionCount == Cardinality(Tracked)

FreeSessions == {s \in SessionIds : sessKey[s] = NoKey}
NewSession == CHOOSE s \in FreeSessions : \A t \in FreeSessions : s <= t
FreeTasks == {r \in ReconnectIds : rtask[r].st = "idle"}
NewTask == CHOOSE r \in FreeTasks : \A t \in FreeTasks : r <= t

\* a session the pool can still hear from or reach: it is tracked, a stored
\* cleanup refers to it, it is connected with a handler registered on it, or
\* the pool awaits its teardown
Reachable(s, sess, cleanups, sb, al, td) ==
  \/ \E k \in Keys : sess[k] = s
  \/ \E k \in Keys : cleanups[k] = s
  \/ al[s] /\ sb[s] # NoKey
  \/ td[s] # NoKey

\* the sessions after a step that leaves the awaited teardowns td and the
\* disconnect() counts tc; what is known of a session that is no longer
\* reachable is dropped
SessionsAfter(sk, sb, al, td, tc) ==
  /\ sessKey' = [s \in SessionIds |->
        IF sk[s] = NoKey THEN NoKey
        ELSE IF Reachable(s, sessions', disconnectCleanups', sb, al, td)
        THEN sk[s] ELSE Gone]
  /\ subs' = [s \in SessionIds |->
        IF Reachable(s, sessions', disconnectCleanups', sb, al, td)
        THEN sb[s] ELSE NoKey]
  /\ alive' = [s \in SessionIds |->
        IF Reachable(s, sessions', disconnectCleanups', sb, al, td)
        THEN al[s] ELSE FALSE]
  /\ tornDown' = [s \in SessionIds |->
        IF Reachable(s, sessions', disconnectCleanups', sb, al, td)
        THEN tc[s] ELSE 0]

\* the sessions after a step that calls disconnect() on no session
SessionsAwaiting(sk, sb, al, td) ==
  SessionsAfter(sk, sb, al, td, tornDown)

\* the sessions after a step that starts and settles no teardown
Sessions(sk, sb, al) == SessionsAwaiting(sk, sb, al, teardowns)

\* the capacity check with > for >=
AtCapacity_Exclusive(size, pending, max) == size + pending > max

\* the capacity check without the pending counter
AtCapacity_LiveOnly(size, pending, max) == size >= max

\* connection-pool.ts:277
AtCapacity(size, pending, max) == size + pending >= max

\* a connect() whose counter is never given back
ConnectFinally_Leak(pending) == pending

\* finally { pendingConnections-- }, connection-pool.ts:304-306
ConnectFinally(pending) == pending - 1

\* the connect() calls that have passed the capacity check and not settled:
\* those awaiting adapter.connect() and the one whose emit("connect") runs
InFlightConnects ==
  connectTasks + (IF handler.type = "connect" THEN 1 ELSE 0)

\* ------------------------------------------------------------------- Init
PoolInit ==
  /\ maxConnections \in 1..MaxPool
  /\ autoReconnect \in BOOLEAN
  /\ sessions = [k \in Keys |-> NoSession]
  /\ adapters = [k \in Keys |-> NoAdapter]
  /\ disconnectCleanups = [k \in Keys |-> NoSession]
  /\ reconnectingDevices = {}
  /\ pendingConnections = 0
  /\ sessKey = [s \in SessionIds |-> NoKey]
  /\ subs = [s \in SessionIds |-> NoKey]
  /\ alive = [s \in SessionIds |-> FALSE]
  /\ connectTasks = 0
  /\ rtask = [r \in ReconnectIds |-> IdleTask]
  /\ teardowns = [s \in SessionIds |-> NoKey]
  /\ tornDown = [s \in SessionIds |-> 0]
  /\ dall = NoCall
  /\ handler = NoHandler
  /\ last = NoStep

\* ----------------------------------------------------------------- connect
\* how many of n connect() calls made one after the other pass the check of
\* line 277, each admitted call having incremented the counter (line 283)
RECURSIVE Admitted(_, _, _, _)
Admitted(n, size, pending, max) ==
  IF n = 0 THEN 0
  ELSE IF AtCapacity(size, pending, max)
       THEN Admitted(n - 1, size, pending, max)
       ELSE 1 + Admitted(n - 1, size, pending + 1, max)

\* n connect() calls made in one synchronous turn: the synchronous prefix of
\* each, up to `await adapter.connect()`
ConnectStart(n) ==
  /\ LET a == Admitted(n, connectionCount, pendingConnections, maxConnections)
     IN /\ pendingConnections' = pendingConnections + a
        /\ connectTasks' = connectTasks + a
        /\ last' = Step("connect", NoKey, NoSession,
                        IF a = 0 THEN "capacity"
                        ELSE IF a < n THEN "partial" ELSE "admitted",
                        <<>>, a > 0)
  /\ UNCHANGED <<maxConnections, autoReconnect, sessions, adapters,
                 disconnectCleanups, reconnectingDevices, sessKey, subs,
                 alive, rtask, teardowns, handler>>
  /\ UNCHANGED <<tornDown, dall>>
  /\ UNCHANGED OtherThanPool

\* adapter.connect() resolved with a session that reports `key`, on an
\* adapter of the given kind; the code runs up to and including
\* emitter.emit("connect")
ConnectResolve(kind, key, hasOnDisconnect) ==
  /\ handler = NoHandler
  /\ connectTasks > 0
  /\ FreeSessions # {}
  /\ LET s == NewSession
     IN /\ adapters' = [adapters EXCEPT ![key] = kind]
        /\ sessions' = [sessions EXCEPT ![key] = s]
        /\ disconnectCleanups' =
             IF hasOnDisconnect
             THEN [disconnectCleanups EXCEPT ![key] = s]
             ELSE disconnectCleanups
        /\ Sessions([sessKey EXCEPT ![s] = key],
                    IF hasOnDisconnect THEN [subs EXCEPT ![s] = key] ELSE subs,
                    [alive EXCEPT ![s] = TRUE])
        /\ last' = Step("connectResolve", key, s, "ok", <<<<"connect", key>>>>, TRUE)
  /\ connectTasks' = connectTasks - 1
  /\ handler' = [type |-> "connect", key |-> key]
  /\ UNCHANGED <<maxConnections, autoReconnect, reconnectingDevices,
                 pendingConnections, rtask, teardowns>>
  /\ UNCHANGED dall
  /\ UNCHANGED OtherThanPool

\* adapter.connect() rejected: only the finally block runs
ConnectFail ==
  /\ handler = NoHandler
  /\ connectTasks > 0
  /\ connectTasks' = connectTasks - 1
  /\ pendingConnections' = ConnectFinally(pendingConnections)
  /\ last' = Step("connectFail", NoKey, NoSession, "error", <<>>, FALSE)
  /\ UNCHANGED <<maxConnections, autoReconnect, sessions, adapters,
                 disconnectCleanups, reconnectingDevices, sessKey, subs,
                 alive, rtask, teardowns, handler>>
  /\ UNCHANGED <<tornDown, dall>>
  /\ UNCHANGED OtherThanPool

\* -------------------------------------------------------------- disconnect
\* the reconnects for the keys ks that a disconnect finds in flight
MarkDisconnected(ks) ==
  [r \in ReconnectIds |->
     IF rtask[r].st = "inflight" /\ rtask[r].key \in ks
     THEN [rtask[r] EXCEPT !.disc = TRUE] ELSE rtask[r]]

\* disconnect() without the call of the stored cleanup
CleanedUp_Kept(ks) == subs

\* cleanup(): the handlers that the cleanups stored under ks unsubscribe
CleanedUp(ks) ==
  [s \in SessionIds |->
     IF \E k \in ks : disconnectCleanups[k] = s THEN NoKey ELSE subs[s]]

\* the sessions tracked under ks are being disconnected by the pool: what
\* they report from now on is no unexpected disconnect
Disconnecting(ks) ==
  [s \in SessionIds |-> alive[s] /\ \A k \in ks : sessions[k] # s]

\* session.disconnect() has been called on the sessions tracked under ks and
\* is awaited: line 333
TornDown(ks) ==
  [s \in SessionIds |->
     IF \E k \in ks : sessions[k] = s
     THEN CHOOSE k \in ks : sessions[k] = s
     ELSE teardowns[s]]

\* the disconnect() counts after that call
Called(ks) ==
  [s \in SessionIds |->
     IF \E k \in ks : sessions[k] = s THEN tornDown[s] + 1 ELSE tornDown[s]]

\* the early return is missing: disconnect goes on for a key without session
Unknown_Never(k) == FALSE

\* `if (!session) return`, lines 320-321
Unknown(k) == sessions[k] = NoSession

\* disconnect(deviceId): the synchronous prefix, up to
\* `await session.disconnect()`
DisconnectStart(k) ==
  /\ reconnectingDevices' = reconnectingDevices \ {k}
  /\ rtask' = MarkDisconnected({k})
  /\ IF Unknown(k)
     THEN /\ last' = Step("disconnect", NoKey, NoSession, "noop", <<>>, FALSE)
          /\ UNCHANGED <<sessions, adapters, disconnectCleanups, sessKey,
                         subs, alive, teardowns, tornDown>>
     ELSE /\ sessions' = [sessions EXCEPT ![k] = NoSession]
          /\ adapters' = [adapters EXCEPT ![k] = NoAdapter]
          /\ disconnectCleanups' = [disconnectCleanups EXCEPT ![k] = NoSession]
          /\ teardowns' = TornDown({k})
          /\ SessionsAfter(sessKey, CleanedUp({k}), Disconnecting({k}),
                           TornDown({k}),
                           Called({k}))
          /\ last' = Step("disconnect", k, sessions[k], "teardown", <<>>, TRUE)
  /\ UNCHANGED <<maxConnections, autoReconnect, pendingConnections,
                 connectTasks, handler>>
  /\ UNCHANGED dall
  /\ UNCHANGED OtherThanPool

\* Promise.all for Promise.allSettled: one rejection rejects the whole
Aggregate_All(failed) == IF failed THEN "rejected" ELSE "resolved"

\* await Promise.allSettled(..), then the failures are only logged:
\* lines 339-347
Aggregate(failed) == "resolved"

\* the disconnectAll() in flight after the disconnect(id) that awaited the
\* teardown of session s has settled
Settled(d, s, ok) ==
  IF s \in d.awaiting
  THEN [d EXCEPT !.awaiting = @ \ {s}, !.failed = @ \/ ~ok]
  ELSE d

\* every disconnect(id) of the disconnectAll() in flight has settled
AllSettled(d) == d.st = "waiting" /\ d.awaiting = {}

\* the step that settles the last disconnect(id) of a disconnectAll() also
\* runs the code after its await, lines 342-347
Returned(step, d) ==
  IF AllSettled(d) THEN [step EXCEPT !.all = Aggregate(d.failed)] ELSE step

\* the teardown's failure is caught: disconnect(id) resolves all the same
Propagated_Swallowed(ok) == "resolved"

\* how disconnect(id) settles once `await session.disconnect()` has, line 333
Propagated(ok) == IF ok THEN "resolved" ELSE "rejected"

\* session.disconnect() settled: the code after the await, lines 333-334
TeardownSettle(s, ok) ==
  /\ handler = NoHandler
  /\ teardowns[s] # NoKey
  /\ teardowns' = [teardowns EXCEPT ![s] = NoKey]
  /\ UNCHANGED <<maxConnections, autoReconnect, sessions, adapters,
                 disconnectCleanups, reconnectingDevices, pendingConnections,
                 connectTasks, rtask>>
  /\ SessionsAwaiting(sessKey, subs, alive, [teardowns EXCEPT ![s] = NoKey])
  /\ LET k == teardowns[s]
         d == Settled(dall, s, ok)
     IN IF ok
        THEN /\ handler' = [type |-> "disconnect", key |-> k]
             /\ dall' = d
             /\ last' = Step("teardownSettle", k, s, "resolved",
                             <<<<"disconnect", k>>>>, TRUE)
        ELSE /\ handler' = handler
             /\ dall' = IF AllSettled(d) THEN NoCall ELSE d
             /\ last' = Returned(Step("teardownSettle", k, s, Propagated(ok),
                                      <<>>, FALSE), d)
  /\ UNCHANGED OtherThanPool

\* disconnectAll(): this.disconnect(id) for every tracked id, each up to its
\* await
DisconnectAll ==
  /\ Tracked # {}
  /\ dall.st = "idle"
  /\ dall' = [st |-> "waiting", awaiting |-> {sessions[k] : k \in Tracked},
              failed |-> FALSE]
  /\ reconnectingDevices' = reconnectingDevices \ Tracked
  /\ rtask' = MarkDisconnected(Tracked)
  /\ sessions' = [k \in Keys |-> NoSession]
  /\ adapters' = [k \in Keys |-> IF k \in Tracked THEN NoAdapter ELSE adapters[k]]
  /\ disconnectCleanups' =
       [k \in Keys |-> IF k \in Tracked THEN NoSession ELSE disconnectCleanups[k]]
  /\ teardowns' = TornDown(Tracked)
  /\ SessionsAfter(sessKey, CleanedUp(Tracked), Disconnecting(Tracked),
                   TornDown(Tracked),
                   Called(Tracked))
  /\ last' = Step("disconnectAll", NoKey, NoSession, "teardown", <<>>, TRUE)
  /\ UNCHANGED <<maxConnections, autoReconnect, pendingConnections,
                 connectTasks, handler>>
  /\ UNCHANGED OtherThanPool

\* -------------------------------------------------------- handleDisconnect
\* session s reports that it is disconnected, on its own or, until its
\* teardown has settled, because of the teardown; when a handler is
\* registered on it, handleDisconnect(deviceId) runs up to and including
\* emit("disconnect")
\* handleDisconnect goes on without looking for the session
Untracked_Never(k) == FALSE

\* if (!session) return, lines 194-195
Untracked(k) == sessions[k] = NoSession

Notify(s) ==
  /\ handler = NoHandler
  /\ (alive[s] /\ subs[s] # NoKey) \/ teardowns[s] # NoKey
  /\ autoReconnect => FreeTasks # {}
  /\ LET k == subs[s]
     IN IF k = NoKey
        THEN /\ last' = Step("notify", teardowns[s], s, "unheard", <<>>, FALSE)
             /\ UNCHANGED <<sessions, disconnectCleanups, handler>>
             /\ Sessions(sessKey, subs, alive)
        ELSE IF Untracked(k)
        THEN /\ last' = Step("notify", k, s, "ignored", <<>>, FALSE)
             /\ UNCHANGED <<sessions, disconnectCleanups, handler>>
             /\ Sessions(sessKey, subs, [alive EXCEPT ![s] = FALSE])
        ELSE /\ sessions' = [sessions EXCEPT ![k] = NoSession]
             /\ disconnectCleanups' = [disconnectCleanups EXCEPT ![k] = NoSession]
             /\ Sessions(sessKey, CleanedUp({k}), [alive EXCEPT ![s] = FALSE])
             /\ handler' = [type |-> "notify", key |-> k]
             /\ last' = Step("notify", k, s, "removed",
                             <<<<"disconnect", k>>>>, sessions[k] = s)
  /\ UNCHANGED <<maxConnections, autoReconnect, adapters, reconnectingDevices,
                 pendingConnections, connectTasks, rtask, teardowns>>
  /\ UNCHANGED dall
  /\ UNCHANGED OtherThanPool

\* ------------------------------------------------------------ after emit()
\* the subscribers of the running emit() have returned; the emitting
\* function continues to its next suspension point
HandlerReturn ==
  /\ handler # NoHandler
  /\ handler' = NoHandler
  /\ LET k == handler.key
     IN CASE handler.type = "connect" ->
               \* return session; finally { pendingConnections-- }
               /\ pendingConnections' = ConnectFinally(pendingConnections)
               /\ last' = Step("connectReturn", k, NoSession, "ok", <<>>, FALSE)
               /\ UNCHANGED <<adapters, reconnectingDevices, rtask>>
          [] handler.type = "disconnect" ->
               /\ last' = Returned(Step("disconnectReturn", k, NoSession,
                                        "ok", <<>>, FALSE), dall)
               /\ UNCHANGED <<pendingConnections, adapters,
                              reconnectingDevices, rtask>>
          [] handler.type = "notify" ->
               \* handleDisconnect after the emit: auto-reconnect or clean up
               /\ IF autoReconnect
                  THEN IF adapters[k] = "reconnectable"
                       THEN /\ reconnectingDevices' = reconnectingDevices \cup {k}
                            /\ rtask' = [rtask EXCEPT ![NewTask] =
                                  [st |-> "inflight", key |-> k, disc |-> FALSE]]
                            /\ last' = Step("notifyReturn", k, NoSession,
                                            "reconnect", <<>>, TRUE)
                            /\ UNCHANGED adapters
                       ELSE /\ last' = Step("notifyReturn", k, NoSession,
                                            "kept", <<>>, FALSE)
                            /\ UNCHANGED <<adapters, reconnectingDevices, rtask>>
                  ELSE /\ adapters' = [adapters EXCEPT ![k] = NoAdapter]
                       /\ last' = Step("notifyReturn", k, NoSession,
                                       "cleaned", <<>>, FALSE)
                       /\ UNCHANGED <<reconnectingDevices, rtask>>
               /\ UNCHANGED pendingConnections
          [] handler.type = "reconnect" ->
               \* finally { reconnectingDevices.delete(deviceId) }
               /\ reconnectingDevices' = reconnectingDevices \ {k}
               /\ last' = Step("reconnectReturn", k, NoSession, "ok", <<>>, FALSE)
               /\ UNCHANGED <<pendingConnections, adapters, rtask>>
  /\ UNCHANGED <<maxConnections, autoReconnect, sessions, disconnectCleanups,
                 sessKey, subs, alive, connectTasks, teardowns>>
  /\ dall' = IF handler.type = "disconnect" /\ AllSettled(dall)
             THEN NoCall ELSE dall
  /\ UNCHANGED tornDown
  /\ UNCHANGED OtherThanPool

\* ---------------------------------------------------------- reconnectDevice
\* connectWithRetry() resolved with a session that reports `key`:
\* lines 246-261
ReconnectResolve(r, key, hasOnDisconnect) ==
  /\ handler = NoHandler
  /\ rtask[r].st = "inflight"
  /\ FreeSessions # {}
  /\ LET s == NewSession
         k == rtask[r].key
     IN IF k \notin reconnectingDevices
        THEN \* await session.disconnect().catch(() => {})
             /\ rtask' = [rtask EXCEPT ![r].st = "discarding"]
             /\ last' = Step("reconnectResolve", k, s, "discarded", <<>>,
                             rtask[r].disc)
             /\ UNCHANGED <<sessions, disconnectCleanups, handler>>
             /\ Sessions([sessKey EXCEPT ![s] = key], subs, alive)
        ELSE /\ sessions' = [sessions EXCEPT ![k] = s]
             /\ disconnectCleanups' =
                  IF hasOnDisconnect
                  THEN [disconnectCleanups EXCEPT ![k] = s]
                  ELSE disconnectCleanups
             /\ Sessions([sessKey EXCEPT ![s] = key],
                         IF hasOnDisconnect THEN [subs EXCEPT ![s] = k] ELSE subs,
                         [alive EXCEPT ![s] = TRUE])
             /\ handler' = [type |-> "reconnect", key |-> k]
             /\ rtask' = [rtask EXCEPT ![r] = IdleTask]
             /\ last' = Step("reconnectResolve", k, s, "added",
                             <<<<"connect", k>>>>, rtask[r].disc)
  /\ UNCHANGED <<maxConnections, autoReconnect, adapters, reconnectingDevices,
                 pendingConnections, connectTasks, teardowns>>
  /\ UNCHANGED dall
  /\ UNCHANGED OtherThanPool

\* the discarded session's teardown settled: return; finally
ReconnectDiscardDone(r) ==
  /\ handler = NoHandler
  /\ rtask[r].st = "discarding"
  /\ reconnectingDevices' = reconnectingDevices \ {rtask[r].key}
  /\ rtask' = [rtask EXCEPT ![r] = IdleTask]
  /\ last' = Step("reconnectDiscarded", rtask[r].key, NoSession, "ok", <<>>, FALSE)
  /\ UNCHANGED <<maxConnections, autoReconnect, sessions, adapters,
                 disconnectCleanups, pendingConnections, sessKey, subs, alive,
                 connectTasks, teardowns, handler>>
  /\ UNCHANGED <<tornDown, dall>>
  /\ UNCHANGED OtherThanPool

\* connectWithRetry() rejected: catch { adapters.delete } finally
ReconnectFail(r) ==
  /\ handler = NoHandler
  /\ rtask[r].st = "inflight"
  /\ adapters' = [adapters EXCEPT ![rtask[r].key] = NoAdapter]
  /\ reconnectingDevices' = reconnectingDevices \ {rtask[r].key}
  /\ rtask' = [rtask EXCEPT ![r] = IdleTask]
  /\ last' = Step("reconnectFail", rtask[r].key, NoSession, "error", <<>>, FALSE)
  /\ UNCHANGED <<maxConnections, autoReconnect, sessions, disconnectCleanups,
                 pendingConnections, sessKey, subs, alive, connectTasks,
                 teardowns, handler>>
  /\ UNCHANGED <<tornDown, dall>>
  /\ UNCHANGED OtherThanPool

PoolNext ==
  \/ \E n \in 1..MaxBurst : ConnectStart(n)
  \/ \E kind \in AdapterKinds, k \in Keys, h \in BOOLEAN : ConnectResolve(kind, k, h)
  \/ ConnectFail
  \/ \E k \in Keys : DisconnectStart(k)
  \/ \E s \in SessionIds, ok \in BOOLEAN : TeardownSettle(s, ok)
  \/ DisconnectAll
  \/ \E s \in SessionIds : Notify(s)
  \/ HandlerReturn
  \/ \E r \in ReconnectIds, k \in Keys, h \in BOOLEAN : ReconnectResolve(r, k, h)
  \/ \E r \in ReconnectIds : ReconnectDiscardDone(r)
  \/ \E r \in ReconnectIds : ReconnectFail(r)

PoolIdle ==
  /\ maxConnections = 1 /\ autoReconnect = FALSE
  /\ sessions = [k \in Keys |-> NoSession]
  /\ adapters = [k \in Keys |-> NoAdapter]
  /\ disconnectCleanups = [k \in Keys |-> NoSession]
  /\ reconnectingDevices = {}
  /\ pendingConnections = 0
  /\ sessKey = [s \in SessionIds |-> NoKey]
  /\ subs = [s \in SessionIds |-> NoKey]
  /\ alive = [s \in SessionIds |-> FALSE]
  /\ connectTasks = 0
  /\ rtask = [r \in ReconnectIds |-> IdleTask]
  /\ teardowns = [s \in SessionIds |-> NoKey]
  /\ tornDown = [s \in SessionIds |-> 0] /\ dall = NoCall
  /\ handler = NoHandler /\ last = NoStep

\* ======================================================== operation queue
FreeOp == [st |-> "free", key |-> NoKey, pred |-> NoOp, outcome |-> "none",
           result |-> "none", listener |-> FALSE]

QStep(op, key, result) == [op |-> op, key |-> key, result |-> result]
NoQStep == QStep("none", NoKey, "none")

EmptyMap == [k \in {} |-> 0]
MapGet(map, k, default) == IF k \in DOMAIN map THEN map[k] ELSE default
MapSet(map, k, v) == [x \in DOMAIN map \cup {k} |-> IF x = k THEN v ELSE map[x]]
MapDelete(map, k) == [x \in DOMAIN map \ {k} |-> map[x]]

getQueueDepth(k) == MapGet(queueDepths, k, 0)

FreeOps == {i \in OpIds : ops[i].st = "free"}
NewOp == CHOOSE i \in FreeOps : \A j \in FreeOps : i <= j

\* a chain without the catch: a failed operation rejects its link
LinkFulfilled_NoCatch(o) == o.st = "done" /\ o.outcome # "error"

\* newQueue = currentQueue.then(..).then(..).catch(..).finally(..): the
\* catch absorbs every rejection, so the link of operation o is fulfilled
\* once its finally callback has run, whatever the operation's outcome
LinkFulfilled(o) == o.st = "done"

\* every link chained onto a fresh Promise.resolve()
TurnReached_Unchained(i) == TRUE

\* the promise the link of operation i was chained onto is fulfilled
TurnReached(i) ==
  IF ops[i].pred = NoOp THEN TRUE ELSE LinkFulfilled(ops[ops[i].pred])

\* an enqueue that looks at the signal only
Refused_SignalOnly == hasSignal /\ aborted

\* enqueue rejects before it joins the lane, lines 127-135
Refused == (hasSignal /\ aborted) \/ cleared

\* a link that looks at the signal only
TurnCancelled_SignalOnly == hasSignal /\ aborted

\* the link throws instead of calling operation(), lines 156-162
TurnCancelled == (hasSignal /\ aborted) \/ cleared

\* abort handlers that reject only what has not started
AbortRejects_QueuedOnly(o) == o.listener /\ o.st = "queued"

\* the abortHandler registered for the operation rejects its resultPromise,
\* lines 190-196
AbortRejects(o) == o.listener

\* resolveOp / rejectOp settle resultPromise only while it is pending
SettleResult(o, r) == IF o.result = "pending" THEN r ELSE o.result

\* one chain for all the keys: the tail is the operation enqueued last
currentQueue_Shared(k) ==
  IF \A i \in OpIds : ops[i].st \in {"free", "done"} THEN NoOp
  ELSE CHOOSE i \in OpIds :
         /\ ops[i].st # "free"
         /\ \A j \in OpIds : ops[j].st # "free" => j <= i

\* queues.get(characteristicUuid) ?? Promise.resolve(), line 142
currentQueue(k) == MapGet(queues, k, NoOp)

QueueInit ==
  /\ hasSignal \in BOOLEAN
  /\ aborted \in BOOLEAN
  /\ aborted => hasSignal
  /\ cleared = FALSE
  /\ queues = EmptyMap
  /\ queueDepths = EmptyMap
  /\ ops = [i \in OpIds |-> FreeOp]
  /\ qlast = NoQStep

\* enqueue(characteristicUuid, operation), lines 122-209
Enqueue(k) ==
  /\ FreeOps # {}
  /\ IF Refused
     THEN /\ qlast' = QStep("enqueue", k, "abort")
          /\ UNCHANGED <<queues, queueDepths, ops>>
     ELSE LET i == NewOp
          IN /\ queueDepths' = MapSet(queueDepths, k, getQueueDepth(k) + 1)
             /\ ops' = [ops EXCEPT ![i] =
                   [st |-> "queued", key |-> k, pred |-> currentQueue(k),
                    outcome |-> "none", result |-> "pending",
                    listener |-> hasSignal]]
             /\ queues' = MapSet(queues, k, i)
             /\ qlast' = QStep("enqueue", k, "queued")
  /\ UNCHANGED <<hasSignal, aborted, cleared>>
  /\ UNCHANGED OtherThanQueue

\* the first callback of the link runs: lines 154-165 (and 169-172 when it
\* throws)
Turn(i) ==
  /\ ops[i].st = "queued"
  /\ TurnReached(i)
  /\ IF TurnCancelled
     THEN /\ ops' = [ops EXCEPT ![i].st = "settled",
                                ![i].result = SettleResult(ops[i], "abort")]
     ELSE /\ ops' = [ops EXCEPT ![i].st = "running"]
  /\ qlast' = NoQStep
  /\ UNCHANGED <<hasSignal, aborted, cleared, queues, queueDepths>>
  /\ UNCHANGED OtherThanQueue

\* operation() settled: lines 166-172
Settle(i, ok) ==
  /\ ops[i].st = "running"
  /\ ops' = [ops EXCEPT ![i].st = "settled",
                        ![i].outcome = IF ok THEN "value" ELSE "error",
                        ![i].result = SettleResult(ops[i],
                                         IF ok THEN "value" ELSE "error")]
  /\ qlast' = NoQStep
  /\ UNCHANGED <<hasSignal, aborted, cleared, queues, queueDepths>>
  /\ UNCHANGED OtherThanQueue

\* the depth record is kept until it has reached 0
Drained_AtZero(depth) == depth <= 0

\* the last pending operation of the key is finishing, line 176
Drained(depth) == depth <= 1

\* the lane is never removed
LaneDropped_Never(map, k, i) == map

\* the lane is removed if its tail is still this link, lines 179-181
LaneDropped(map, k, i) ==
  IF MapGet(map, k, NoOp) = i THEN MapDelete(map, k) ELSE map

\* the finally callback of the link: lines 173-185
Finally(i) ==
  /\ ops[i].st = "settled"
  /\ LET k == ops[i].key
         depth == MapGet(queueDepths, k, 1)
     IN IF Drained(depth)
        THEN /\ queueDepths' = MapDelete(queueDepths, k)
             /\ queues' = LaneDropped(queues, k, i)
        ELSE /\ queueDepths' = MapSet(queueDepths, k, depth - 1)
             /\ UNCHANGED queues
  /\ ops' = [ops EXCEPT ![i].st = "done"]
  /\ qlast' = NoQStep
  /\ UNCHANGED <<hasSignal, aborted, cleared>>
  /\ UNCHANGED OtherThanQueue

\* the signal fires: every registered abortHandler rejects its resultPromise,
\* lines 190-196
Abort ==
  /\ hasSignal /\ ~aborted
  /\ aborted' = TRUE
  /\ ops' = [i \in OpIds |->
               IF AbortRejects(ops[i])
               THEN [ops[i] EXCEPT !.result = SettleResult(ops[i], "abort")]
               ELSE ops[i]]
  /\ qlast' = NoQStep
  /\ UNCHANGED <<hasSignal, cleared, queues, queueDepths>>
  /\ UNCHANGED OtherThanQueue

\* clear(), lines 215-219
Clear ==
  /\ cleared' = TRUE
  /\ queues' = EmptyMap
  /\ queueDepths' = EmptyMap
  /\ qlast' = NoQStep
  /\ UNCHANGED <<hasSignal, aborted, ops>>
  /\ UNCHANGED OtherThanQueue

QueueNext ==
  \/ \E k \in QKeys : Enqueue(k)
  \/ \E i \in OpIds : Turn(i)
  \/ \E i \in OpIds, ok \in BOOLEAN : Settle(i, ok)
  \/ \E i \in OpIds : Finally(i)
  \/ Abort
  \/ Clear

\* the component is not in use
QueueIdle ==
  /\ hasSignal = FALSE /\ aborted = FALSE /\ cleared = FALSE
  /\ queues = EmptyMap /\ queueDepths = EmptyMap
  /\ ops = [i \in OpIds |-> FreeOp]
  /\ qlast = NoQStep


\* =========================================================== state machine
\* the table with disconnected -> connected let through
VALID_TRANSITIONS_Extra ==
  [s \in States |->
     CASE s = "disconnected" -> {"connecting", "connected"}
       [] s = "connecting" -> {"connected", "error", "disconnected"}
       [] s = "connected" -> {"disconnected", "error"}
       [] s = "error" -> {"disconnected", "connecting"}]

\* state-machine.ts:22-27
VALID_TRANSITIONS ==
  [s \in States |->
     CASE s = "disconnected" -> {"connecting"}
       [] s = "connecting" -> {"connected", "error", "disconnected"}
       [] s = "connected" -> {"disconnected", "error"}
       [] s = "error" -> {"disconnected", "connecting"}]

\* canTransition(to) in state s
canTransition(s, to) == to \in VALID_TRANSITIONS[s]

\* the table is consulted before the guard
TransitionCheck_TableFirst(transitioning, s, to) ==
  IF ~(to \in VALID_TRANSITIONS[s]) THEN "invalid"
  ELSE IF transitioning THEN "reentrant"
  ELSE "ok"

\* what transition(to) does before it touches the state: lines 90-98
TransitionCheck(transitioning, s, to) ==
  IF transitioning THEN "reentrant"
  ELSE IF ~canTransition(s, to) THEN "invalid"
  ELSE "ok"

SmStep(op, from, to, result, nested) ==
  [op |-> op, from |-> from, to |-> to, result |-> result, nested |-> nested]
NoSmStep == SmStep("none", "-", "-", "none", FALSE)
NoOuter == [from |-> "-", to |-> "-"]
NoDelivery ==
  [registered |-> <<>>, calls |-> <<>>, touched |-> FALSE, prior |-> "none"]
Began(d, cbs) == [NoDelivery EXCEPT !.registered = cbs, !.prior = d.prior]
Delivered(d) ==
  [d EXCEPT !.prior = IF \E i \in 1..Len(d.calls) : d.calls[i].threw
                      THEN "thrown" ELSE "returned"]

\* cb(from, to) as recorded when it is called, and when it has returned
Call(c, from, to) == [cb |-> c, from |-> from, to |-> to, threw |-> FALSE]
Ended(calls, throws) ==
  IF calls = <<>> THEN calls ELSE [calls EXCEPT ![Len(calls)].threw = throws]

\* the calls are recorded for as long as no callback has changed the
\* registrations
Recorded(d, call) ==
  IF d.touched THEN d ELSE [d EXCEPT !.calls = Append(@, call)]
Touched(d, inCallback) ==
  IF inCallback THEN [d EXCEPT !.calls = <<>>, !.touched = TRUE] ELSE d

\* a throwing callback ends the loop over the callbacks
IteratorAfter_Abort(throws, pos, n) == IF throws THEN n ELSE pos

\* where the for-of iterator stands once the callback has returned or its
\* throw was caught, lines 106-114
IteratorAfter(throws, pos, n) == pos

\* Set.prototype.add / delete on the insertion-ordered callbacks set
SetAdd(seq, c) ==
  IF \E i \in 1..Len(seq) : seq[i] = c THEN seq ELSE Append(seq, c)
IndexOf(seq, c) == CHOOSE i \in 1..Len(seq) : seq[i] = c
SetDelete(seq, c) ==
  IF \E i \in 1..Len(seq) : seq[i] = c
  THEN LET n == IndexOf(seq, c)
       IN [i \in 1..(Len(seq) - 1) |-> IF i < n THEN seq[i] ELSE seq[i + 1]]
  ELSE seq
\* the position of a running for-of iterator after c was deleted
PosAfterDelete(seq, pos, c) ==
  IF (\E i \in 1..Len(seq) : seq[i] = c) /\ IndexOf(seq, c) <= pos
  THEN pos - 1 ELSE pos

SmInit ==
  /\ state \in States
  /\ callbacks = <<>>
  /\ isTransitioning = FALSE
  /\ smpc = "idle"
  /\ cbPos = 0
  /\ running = NoCallback
  /\ outer = NoOuter
  /\ smlast = NoSmStep
  /\ delivery = NoDelivery

\* transition(to) called by the owner of the machine: lines 89-102
Transition(to) ==
  /\ smpc = "idle"
  /\ LET r == TransitionCheck(isTransitioning, state, to)
     IN /\ smlast' = SmStep("transition", state, to, r, FALSE)
        /\ IF r = "ok"
           THEN /\ state' = to
                /\ isTransitioning' = TRUE
                /\ smpc' = "loop"
                /\ cbPos' = 0
                /\ outer' = [from |-> state, to |-> to]
                /\ delivery' = Began(delivery, callbacks)
           ELSE UNCHANGED <<state, isTransitioning, smpc, cbPos, outer,
                            delivery>>
  /\ UNCHANGED <<callbacks, running>>
  /\ UNCHANGED OtherThanSm

\* for (const cb of callbacks): the next callback is invoked, line 107
InvokeCallback ==
  /\ smpc = "loop"
  /\ cbPos < Len(callbacks)
  /\ running' = callbacks[cbPos + 1]
  /\ cbPos' = cbPos + 1
  /\ smpc' = "callback"
  /\ smlast' = SmStep("invoke", outer.from, outer.to, "none", FALSE)
  /\ delivery' = Recorded(delivery,
                          Call(callbacks[cbPos + 1], outer.from, state))
  /\ UNCHANGED <<state, callbacks, isTransitioning, outer>>
  /\ UNCHANGED OtherThanSm

\* the running callback calls transition(to)
NestedTransition(to) ==
  /\ smpc = "callback"
  /\ LET r == TransitionCheck(isTransitioning, state, to)
     IN /\ smlast' = SmStep("transition", state, to, r, TRUE)
        /\ state' = IF r = "ok" THEN to ELSE state
  /\ UNCHANGED <<callbacks, isTransitioning, smpc, cbPos, running, outer,
                 delivery>>
  /\ UNCHANGED OtherThanSm

\* the running callback returns or throws; the throw is caught, lines 108-113
CallbackReturn(throws) ==
  /\ smpc = "callback"
  /\ smpc' = "loop"
  /\ running' = NoCallback
  /\ smlast' = SmStep("callbackReturn", outer.from, outer.to,
                      IF throws THEN "thrown" ELSE "returned", FALSE)
  /\ cbPos' = IteratorAfter(throws, cbPos, Len(callbacks))
  /\ delivery' = [delivery EXCEPT !.calls = Ended(@, throws)]
  /\ UNCHANGED <<state, callbacks, isTransitioning, outer>>
  /\ UNCHANGED OtherThanSm

\* the guard stays held once a callback has thrown
GuardAfter_HeldOnThrow(calls) ==
  \E i \in 1..Len(calls) : calls[i].threw

\* finally { isTransitioning = false }, lines 115-117
GuardAfter(calls) == FALSE

\* the loop is over and transition() returns, lines 106-118
EndTransition ==
  /\ smpc = "loop"
  /\ cbPos >= Len(callbacks)
  /\ isTransitioning' = GuardAfter(delivery.calls)
  /\ smpc' = "idle"
  /\ cbPos' = 0
  /\ smlast' = SmStep("return", outer.from, outer.to, "ok", FALSE)
  /\ outer' = NoOuter
  /\ delivery' = Delivered(delivery)
  /\ UNCHANGED <<state, callbacks, running>>
  /\ UNCHANGED OtherThanSm

\* onTransition(callback), from the owner or from a running callback
OnTransition(c) ==
  /\ smpc \in {"idle", "callback"}
  /\ callbacks' = SetAdd(callbacks, c)
  /\ smlast' = SmStep("onTransition", "-", "-", "none", smpc = "callback")
  /\ delivery' = Touched(delivery, smpc = "callback")
  /\ UNCHANGED <<state, isTransitioning, smpc, cbPos, running, outer>>
  /\ UNCHANGED OtherThanSm

\* the unsubscribe function onTransition returned, lines 122-124
Unsubscribe(c) ==
  /\ smpc \in {"idle", "callback"}
  /\ callbacks' = SetDelete(callbacks, c)
  /\ cbPos' = IF smpc = "callback" THEN PosAfterDelete(callbacks, cbPos, c)
              ELSE cbPos
  /\ smlast' = SmStep("unsubscribe", "-", "-", "none", smpc = "callback")
  /\ delivery' = Touched(delivery, smpc = "callback")
  /\ UNCHANGED <<state, isTransitioning, smpc, running, outer>>
  /\ UNCHANGED OtherThanSm

SmNext ==
  \/ \E to \in States : Transition(to)
  \/ InvokeCallback
  \/ \E to \in States : NestedTransition(to)
  \/ \E t \in BOOLEAN : CallbackReturn(t)
  \/ EndTransition
  \/ \E c \in CallbackIds : OnTransition(c)
  \/ \E c \in CallbackIds : Unsubscribe(c)

SmIdle ==
  /\ state = "disconnected" /\ callbacks = <<>> /\ isTransitioning = FALSE
  /\ smpc = "idle" /\ cbPos = 0 /\ running = NoCallback
  /\ outer = NoOuter /\ smlast = NoSmStep /\ delivery = NoDelivery

\* ================================================================ withRetry
Min(a, b) == IF a <= b THEN a ELSE b

RECURSIVE Pow(_, _)
Pow(b, e) == IF e = 0 THEN 1 ELSE b * Pow(b, e - 1)

\* transport.ts:303
effectiveInitialDelay == Min(initialDelayMs, maxDelayMs)

\* the delay left to grow without the cap of maxDelayMs
delayMs_Uncapped(attempt) ==
  effectiveInitialDelay * Pow(backoffMultiplier, attempt - 1)

\* the delay reported to onRetry, transport.ts:334-337
delayMs(attempt) ==
  Min(effectiveInitialDelay * Pow(backoffMultiplier, attempt - 1), maxDelayMs)

\* every call after the first counted as a retry
retries_Total == maxAttempts

\* the retries option handed to p-retry, transport.ts:323
retries == maxAttempts - 1

\* p-retry's error.retriesLeft for the failed attempt
retriesLeft(attempt) == retries - (attempt - 1)

\* no error ends the retrying
Stops_Never(retryable) == FALSE

\* the error is turned into p-retry's AbortError, transport.ts:314
Stops(retryable) == ~retryable

\* onRetry told the number of the attempt to come
OnRetryArgs_Upcoming(attempt) == <<attempt + 1, delayMs(attempt)>>

\* the arguments onFailedAttempt passes to onRetry, transport.ts:333-338
OnRetryArgs(attempt) == <<attempt, delayMs(attempt)>>

\* onFailedAttempt for the failed attempt, transport.ts:329-340
Reported(log, attempt) ==
  IF retriesLeft(attempt) > 0 THEN Append(log, OnRetryArgs(attempt)) ELSE log

Result(kind, from) == [kind |-> kind, from |-> from]
NoResult == Result("none", 0)

\* what withRetry rejects with when the failed attempt's error is not
\* retryable: new PRetryAbortError(error.message) carries the message only,
\* and p-retry rejects with the plain Error it builds from that message,
\* transport.ts:315 and 348
MessageOnly(attempt) == Result("messageError", attempt)

\* what withRetry rejects with when the last permitted attempt failed: the
\* error thrown at line 318, rethrown at line 348
LastError(attempt) == Result("operationError", attempt)

RetryInit ==
  /\ maxAttempts \in AttemptLimits
  /\ signal \in {"none", "idle", "aborted"}
  /\ initialDelayMs \in InitialDelays
  /\ maxDelayMs \in MaxDelays
  /\ backoffMultiplier \in Multipliers
  /\ rpc = "start"
  /\ attemptNumber = 0
  /\ opRunning = FALSE
  /\ history = <<>>
  /\ retryLog = <<>>
  /\ rresult = NoResult

\* the signal is not looked at before the first call
AlreadyAborted_Ignored(sig) == FALSE

\* signal?.aborted, transport.ts:298
AlreadyAborted(sig) == sig = "aborted"

\* only a negative maxAttempts is refused
Invalid_NegativeOnly(max) == max < 0

\* the check on maxAttempts, transport.ts:293
Invalid(max) == max < 1

\* withRetry(operation, options) up to the first operation() call,
\* lines 293-309
WithRetry ==
  /\ rpc = "start"
  /\ IF Invalid(maxAttempts)
     THEN /\ rpc' = "rejected"
          /\ rresult' = Result("RangeError", 0)
          /\ UNCHANGED <<attemptNumber, opRunning>>
     ELSE IF AlreadyAborted(signal)
     THEN /\ rpc' = "rejected"
          /\ rresult' = Result("AbortError", 0)
          /\ UNCHANGED <<attemptNumber, opRunning>>
     ELSE /\ rpc' = "attempt"
          /\ attemptNumber' = 1
          /\ opRunning' = TRUE
          /\ UNCHANGED rresult
  /\ UNCHANGED <<maxAttempts, signal, initialDelayMs, maxDelayMs,
                 backoffMultiplier, history, retryLog>>
  /\ UNCHANGED OtherThanRetry

\* operation() resolved, line 309
OperationResolves ==
  /\ rpc = "attempt"
  /\ history' = Append(history, "value")
  /\ opRunning' = FALSE
  /\ rpc' = "resolved"
  /\ rresult' = Result("value", attemptNumber)
  /\ UNCHANGED <<maxAttempts, signal, initialDelayMs, maxDelayMs,
                 backoffMultiplier, attemptNumber, retryLog>>
  /\ UNCHANGED OtherThanRetry

\* operation() rejected with an error that isRetryable() classifies as
\* `retryable`: lines 310-319 and 329-340
OperationRejects(retryable) ==
  /\ rpc = "attempt"
  /\ history' = Append(history, IF retryable THEN "retryable" ELSE "fatal")
  /\ opRunning' = FALSE
  /\ IF Stops(retryable)
     THEN \* throw new PRetryAbortError(error.message): p-retry stops
          /\ rpc' = "rejected"
          /\ rresult' = MessageOnly(attemptNumber)
          /\ UNCHANGED retryLog
     ELSE /\ retryLog' = Reported(retryLog, attemptNumber)
          /\ IF retriesLeft(attemptNumber) > 0
             THEN /\ rpc' = "delay"
                  /\ UNCHANGED rresult
             ELSE /\ rpc' = "rejected"
                  /\ rresult' = LastError(attemptNumber)
  /\ UNCHANGED <<maxAttempts, signal, initialDelayMs, maxDelayMs,
                 backoffMultiplier, attemptNumber>>
  /\ UNCHANGED OtherThanRetry

\* the inter-attempt delay elapsed: p-retry calls the operation again
DelayElapsed ==
  /\ rpc = "delay"
  /\ rpc' = "attempt"
  /\ attemptNumber' = attemptNumber + 1
  /\ opRunning' = TRUE
  /\ UNCHANGED <<maxAttempts, signal, initialDelayMs, maxDelayMs,
                 backoffMultiplier, history, retryLog, rresult>>
  /\ UNCHANGED OtherThanRetry

\* the catch of lines 343-349 for p-retry's rejection with the signal's
\* reason: a reason that is an Error named "AbortError" (the default reason of
\* abort()) is turned into the library's AbortError, any other reason is
\* rethrown as it is
Converted(named) ==
  IF named THEN Result("AbortError", 0) ELSE Result("signalReason", 0)

\* the signal fires while withRetry is waiting, with a reason that is
\* `named` "AbortError" or not: p-retry rejects with the signal's reason,
\* lines 328 and 343-348; an operation() call in flight is not interrupted
SignalFires(named) ==
  /\ signal = "idle"
  /\ rpc \in {"attempt", "delay"}
  /\ signal' = "aborted"
  /\ rpc' = "rejected"
  /\ rresult' = Converted(named)
  /\ UNCHANGED <<maxAttempts, initialDelayMs, maxDelayMs, backoffMultiplier,
                 attemptNumber, opRunning, history, retryLog>>
  /\ UNCHANGED OtherThanRetry

\* the operation() call that was in flight when the signal fired settles;
\* withRetry has already rejected. Whether the library still runs
\* onFailedAttempt for it is not fixed by transport.ts: both are allowed
LateSettle(outcome, reports) ==
  /\ rpc = "rejected"
  /\ opRunning
  /\ opRunning' = FALSE
  /\ history' = Append(history, outcome)
  /\ retryLog' = IF outcome = "retryable" /\ reports
                 THEN Reported(retryLog, attemptNumber) ELSE retryLog
  /\ UNCHANGED <<maxAttempts, signal, initialDelayMs, maxDelayMs,
                 backoffMultiplier, rpc, attemptNumber, rresult>>
  /\ UNCHANGED OtherThanRetry

RetryNext ==
  \/ WithRetry
  \/ OperationResolves
  \/ \E r \in BOOLEAN : OperationRejects(r)
  \/ DelayElapsed
  \/ \E named \in BOOLEAN : SignalFires(named)
  \/ \E o \in {"value", "retryable", "fatal"}, r \in BOOLEAN : LateSettle(o, r)

RetryIdle ==
  /\ maxAttempts = 1 /\ signal = "none" /\ initialDelayMs = 1
  /\ maxDelayMs = 2 /\ backoffMultiplier = 1
  /\ rpc = "start" /\ attemptNumber = 0 /\ opRunning = FALSE
  /\ history = <<>> /\ retryLog = <<>> /\ rresult = NoResult

\* ====================================================== isTransientBLEError
\* errors.ts:236-245
nonRetryablePatterns ==
  {"user cancelled", "user canceled", "user denied", "notallowederror",
   "securityerror", "not found", "no device selected", "permission denied"}

\* errors.ts:254-262
retryablePatterns ==
  {"network", "gatt", "connection", "disconnect", "failed to execute",
   "operation failed", "not connected"}

\* an error message, lower-cased, as the set of the phrases above that occur
\* in it
Messages ==
  {m \in SUBSET (nonRetryablePatterns \cup retryablePatterns) :
     Cardinality(m) <= MaxPhrases}

ErrorNames ==
  {"Error", "AbortError", "TimeoutError", "NotAllowedError", "SecurityError",
   "NetworkError", "NotFoundError"}

\* the phrases that occur in error.name.toLowerCase()
NamePhrases(name) ==
  IF name = "NotAllowedError" THEN {"notallowederror"}
  ELSE IF name = "SecurityError" THEN {"securityerror"}
  ELSE IF name = "NetworkError" THEN {"network"}
  ELSE {}

\* the errors classified: instances of the library's AbortError and
\* TimeoutError, whose constructors set the name (errors.ts:8-26), and other
\* Error objects under any name
Errors ==
  {[class |-> c, name |-> c, message |-> m] :
     c \in {"AbortError", "TimeoutError"}, m \in Messages}
  \cup {[class |-> "Error", name |-> n, message |-> m] :
          n \in ErrorNames, m \in Messages}

\* message.includes(pattern) || name.includes(pattern), errors.ts:248, 265
Includes(e, pattern) ==
  pattern \in e.message \/ pattern \in NamePhrases(e.name)

\* the connectivity phrases looked for before the refusals
isTransientBLEError_RetryFirst(e) ==
  IF e.class = "AbortError" \/ e.name = "AbortError" THEN FALSE
  ELSE IF e.class = "TimeoutError" \/ e.name = "TimeoutError" THEN TRUE
  ELSE IF \E p \in retryablePatterns : Includes(e, p) THEN TRUE
  ELSE FALSE

\* errors.ts:221-272
isTransientBLEError(e) ==
  IF e.class = "AbortError" \/ e.name = "AbortError" THEN FALSE
  ELSE IF e.class = "TimeoutError" \/ e.name = "TimeoutError" THEN TRUE
  ELSE IF \E p \in nonRetryablePatterns : Includes(e, p) THEN FALSE
  ELSE IF \E p \in retryablePatterns : Includes(e, p) THEN TRUE
  ELSE FALSE

ErrorsInit ==
  /\ error \in Errors
  /\ verdict = "unknown"

\* isTransientBLEError(error) is called and returns
Classify ==
  /\ verdict = "unknown"
  /\ verdict' = IF isTransientBLEError(error) THEN "retryable" ELSE "fatal"
  /\ UNCHANGED error
  /\ UNCHANGED OtherThanErrors

ErrorsNext == Classify

ErrorsIdle ==
  /\ error = [class |-> "Error", name |-> "Error", message |-> {}]
  /\ verdict = "unknown"

\* ------------------------------------------------------- createPollManager
PollIds == 1..MaxPollIds
NoTimer == 0

PStep(op, sess, stops) == [op |-> op, sess |-> sess, stops |-> stops]
NoPStep == PStep("none", 0, FALSE)

\* sessionId after stop(), line 89 (the wrap at Number.MAX_SAFE_INTEGER is
\* out of reach of MaxPollIds)
Bumped(id) == id + 1

PollInit ==
  /\ maxConsecutiveErrors \in 1..MaxErrors
  /\ pollTimer = NoTimer
  /\ sessionId = 0
  /\ consecutiveErrors = [s \in PollIds |-> 0]
  /\ inFlight = [s \in PollIds |-> 0]
  /\ plast = NoPStep

\* start(context): stop(), then the timer of a new session, lines 92-139
Start ==
  /\ sessionId < MaxPollIds
  /\ sessionId' = Bumped(sessionId)
  /\ pollTimer' = Bumped(sessionId)
  /\ consecutiveErrors' = [consecutiveErrors EXCEPT ![Bumped(sessionId)] = 0]
  /\ plast' = PStep("start", Bumped(sessionId), pollTimer # NoTimer)
  /\ UNCHANGED <<maxConsecutiveErrors, inFlight>>
  /\ UNCHANGED OtherThanPoll

\* stop(), lines 84-90
Stop ==
  /\ sessionId < MaxPollIds
  /\ pollTimer' = NoTimer
  /\ sessionId' = Bumped(sessionId)
  /\ plast' = PStep("stop", sessionId, pollTimer # NoTimer)
  /\ UNCHANGED <<maxConsecutiveErrors, consecutiveErrors, inFlight>>
  /\ UNCHANGED OtherThanPoll

\* the interval callback of the live timer, lines 109-123: `collected` is
\* what contextRef.deref() finds
Tick(collected) ==
  /\ pollTimer # NoTimer
  /\ LET s == pollTimer
     IN IF s # sessionId
        THEN /\ plast' = PStep("tick", s, FALSE)
             /\ UNCHANGED <<pollTimer, sessionId, inFlight>>
        ELSE IF collected
        THEN /\ sessionId < MaxPollIds
             /\ pollTimer' = NoTimer
             /\ sessionId' = Bumped(sessionId)
             /\ plast' = PStep("tick", s, TRUE)
             /\ UNCHANGED inFlight
        ELSE /\ inFlight[s] < MaxPending
             /\ inFlight' = [inFlight EXCEPT ![s] = @ + 1]
             /\ plast' = PStep("poll", s, FALSE)
             /\ UNCHANGED <<pollTimer, sessionId>>
  /\ UNCHANGED <<maxConsecutiveErrors, consecutiveErrors>>
  /\ UNCHANGED OtherThanPoll

\* a poll issued by session s resolved: lines 124-126
PollResolve(s) ==
  /\ inFlight[s] > 0
  /\ inFlight' = [inFlight EXCEPT ![s] = @ - 1]
  /\ consecutiveErrors' = [consecutiveErrors EXCEPT ![s] = 0]
  /\ plast' = PStep("resolve", s, FALSE)
  /\ UNCHANGED <<maxConsecutiveErrors, pollTimer, sessionId>>
  /\ UNCHANGED OtherThanPoll

\* a poll issued by session s rejected: lines 127-137
PollReject(s) ==
  /\ inFlight[s] > 0
  /\ inFlight' = [inFlight EXCEPT ![s] = @ - 1]
  /\ consecutiveErrors' = [consecutiveErrors EXCEPT ![s] = @ + 1]
  /\ IF consecutiveErrors[s] + 1 >= maxConsecutiveErrors
     THEN /\ sessionId < MaxPollIds
          /\ pollTimer' = NoTimer
          /\ sessionId' = Bumped(sessionId)
          /\ plast' = PStep("reject", s, pollTimer # NoTimer)
     ELSE /\ plast' = PStep("reject", s, FALSE)
          /\ UNCHANGED <<pollTimer, sessionId>>
  /\ UNCHANGED maxConsecutiveErrors
  /\ UNCHANGED OtherThanPoll

\* isPolling(), lines 141-143
isPolling == pollTimer # NoTimer

PollNext ==
  \/ Start
  \/ Stop
  \/ \E collected \in BOOLEAN : Tick(collected)
  \/ \E s \in PollIds : PollResolve(s)
  \/ \E s \in PollIds : PollReject(s)

PollIdle ==
  /\ maxConsecutiveErrors = 1 /\ pollTimer = NoTimer /\ sessionId = 0
  /\ consecutiveErrors = [s \in PollIds |-> 0]
  /\ inFlight = [s \in PollIds |-> 0]
  /\ plast = NoPStep

\* ------------------------------------------------------ createEventEmitter
EventNames == {"E", "F"}
Handlers == 1..MaxHandlers
WrapperIds == 1..MaxWrappers
NoWrapperId == 0
NoWrapper == [event |-> "-", callback |-> 0]

\* the members of a listener set: a callback as it was passed to on(), or
\* the wrapper once() made
Plain(c) == <<"callback", c>>
Wrapper(w) == <<"wrapper", w>>
IsPlain(x) == x[1] = "callback"

EStep(op, event, callback, invoked) ==
  [op |-> op, event |-> event, callback |-> callback, invoked |-> invoked]
NoEStep == EStep("none", "-", 0, <<>>)

\* the wrappers that are in no listener set any more are garbage
Released(ls, wr) ==
  [w \in WrapperIds |->
     IF \E e \in DOMAIN ls : \E i \in 1..Len(ls[e]) : ls[e][i] = Wrapper(w)
     THEN wr[w] ELSE NoWrapper]

FreeWrappers == {w \in WrapperIds : wrapped[w] = NoWrapper}
NewWrapper == CHOOSE w \in FreeWrappers : \A v \in FreeWrappers : w <= v

\* the callback a member of a listener set ends up calling
Target(x) == IF IsPlain(x) THEN x[2] ELSE wrapped[x[2]].callback

\* the members of the set of event e that call callback c
Registrations(e, c) ==
  IF e \in DOMAIN listeners
  THEN {i \in 1..Len(listeners[e]) : Target(listeners[e][i]) = c}
  ELSE {}

\* callback c is registered on event e by one once() and nothing else
OnlyOnce(e, c) ==
  /\ Cardinality(Registrations(e, c)) = 1
  /\ \A i \in Registrations(e, c) : ~IsPlain(listeners[e][i])

EmitterInit ==
  /\ listeners = EmptyMap
  /\ onceWrappers = [c \in Handlers |-> NoWrapperId]
  /\ wrapped = [w \in WrapperIds |-> NoWrapper]
  /\ removed = {}
  /\ elast = NoEStep

\* on(event, callback), lines 83-90
On(e, c) ==
  /\ listeners' = MapSet(listeners, e,
                          SetAdd(MapGet(listeners, e, <<>>), Plain(c)))
  /\ removed' = removed \ {<<e, c>>}
  /\ elast' = EStep("on", e, c, <<>>)
  /\ UNCHANGED <<onceWrappers, wrapped>>
  /\ UNCHANGED OtherThanEmitter

\* once(event, callback), lines 92-111
Once(e, c) ==
  /\ FreeWrappers # {}
  /\ LET w == NewWrapper
     IN /\ wrapped' = [wrapped EXCEPT ![w] = [event |-> e, callback |-> c]]
        /\ onceWrappers' = [onceWrappers EXCEPT ![c] = w]
        /\ listeners' = MapSet(listeners, e,
                                Append(MapGet(listeners, e, <<>>), Wrapper(w)))
  /\ removed' = removed \ {<<e, c>>}
  /\ elast' = EStep("once", e, c, <<>>)
  /\ UNCHANGED OtherThanEmitter

\* off(event, callback), lines 113-127; also the function that on() and
\* once() return
Off(e, c) ==
  /\ IF e \notin DOMAIN listeners
     THEN UNCHANGED <<listeners, onceWrappers, wrapped>>
     ELSE LET ls == IF onceWrappers[c] # NoWrapperId
                    THEN MapSet(listeners, e,
                                SetDelete(listeners[e], Wrapper(onceWrappers[c])))
                    ELSE MapSet(listeners, e, SetDelete(listeners[e], Plain(c)))
          IN /\ listeners' = ls
             /\ onceWrappers' = [onceWrappers EXCEPT ![c] = NoWrapperId]
             /\ wrapped' = Released(ls, wrapped)
  /\ removed' = IF OnlyOnce(e, c) THEN removed \cup {<<e, c>>} ELSE removed
  /\ elast' = EStep("off", e, c, <<>>)
  /\ UNCHANGED OtherThanEmitter

\* emit(event, data), lines 149-166, with the wrappers of lines 96-101 that
\* it runs
Emit(e) ==
  /\ IF e \notin DOMAIN listeners
     THEN /\ elast' = EStep("emit", e, 0, <<>>)
          /\ UNCHANGED <<listeners, onceWrappers, wrapped>>
     ELSE LET set == listeners[e]
              ls == MapSet(listeners, e, SelectSeq(set, IsPlain))
              ran == {set[i][2] : i \in {j \in 1..Len(set) : ~IsPlain(set[j])}}
          IN /\ listeners' = ls
             /\ onceWrappers' =
                  [c \in Handlers |->
                     IF \E w \in ran : wrapped[w].callback = c
                     THEN NoWrapperId ELSE onceWrappers[c]]
             /\ wrapped' = Released(ls, wrapped)
             /\ elast' = EStep("emit", e, 0,
                               [i \in 1..Len(set) |-> Target(set[i])])
  /\ UNCHANGED removed
  /\ UNCHANGED OtherThanEmitter

\* removeAllListeners(event), lines 130-142
RemoveAllListeners(e) ==
  /\ IF e \notin DOMAIN listeners
     THEN UNCHANGED <<listeners, onceWrappers, wrapped>>
     ELSE LET set == listeners[e]
              ls == MapDelete(listeners, e)
          IN /\ listeners' = ls
             /\ onceWrappers' =
                  [c \in Handlers |->
                     IF \E i \in 1..Len(set) : set[i] = Wrapper(onceWrappers[c])
                     THEN NoWrapperId ELSE onceWrappers[c]]
             /\ wrapped' = Released(ls, wrapped)
  /\ elast' = EStep("removeAllListeners", e, 0, <<>>)
  /\ UNCHANGED removed
  /\ UNCHANGED OtherThanEmitter

\* removeAllListeners(), lines 143-146
RemoveEveryListener ==
  /\ listeners' = EmptyMap
  /\ onceWrappers' = [c \in Handlers |-> NoWrapperId]
  /\ wrapped' = [w \in WrapperIds |-> NoWrapper]
  /\ elast' = EStep("removeAllListeners", "-", 0, <<>>)
  /\ UNCHANGED removed
  /\ UNCHANGED OtherThanEmitter

EmitterNext ==
  \/ \E e \in EventNames, c \in Handlers : On(e, c)
  \/ \E e \in EventNames, c \in Handlers : Once(e, c)
  \/ \E e \in EventNames, c \in Handlers : Off(e, c)
  \/ \E e \in EventNames : Emit(e)
  \/ \E e \in EventNames : RemoveAllListeners(e)
  \/ RemoveEveryListener

EmitterIdle == EmitterInit

\* ---------------------------------------------------------- specifications
\* the connection pool
Init ==
  /\ PoolInit /\ QueueIdle /\ SmIdle /\ RetryIdle /\ ErrorsIdle
  /\ PollIdle /\ EmitterIdle
Next == PoolNext
Spec == Init /\ [][Next]_vars

\* the operation queue
QueueSpecInit ==
  /\ QueueInit /\ PoolIdle /\ SmIdle /\ RetryIdle /\ ErrorsIdle
  /\ PollIdle /\ EmitterIdle
QueueSpecNext == QueueNext
QueueSpec == QueueSpecInit /\ [][QueueSpecNext]_vars

\* the state machine
SmSpecInit ==
  /\ SmInit /\ PoolIdle /\ QueueIdle /\ RetryIdle /\ ErrorsIdle
  /\ PollIdle /\ EmitterIdle
SmSpecNext == SmNext
SmSpec == SmSpecInit /\ [][SmSpecNext]_vars

\* withRetry
RetrySpecInit ==
  /\ RetryInit /\ PoolIdle /\ QueueIdle /\ SmIdle /\ ErrorsIdle
  /\ PollIdle /\ EmitterIdle
RetrySpecNext == RetryNext
RetrySpec == RetrySpecInit /\ [][RetrySpecNext]_vars

\* isTransientBLEError
ErrorsSpecInit ==
  /\ ErrorsInit /\ PoolIdle /\ QueueIdle /\ SmIdle /\ RetryIdle
  /\ PollIdle /\ EmitterIdle
ErrorsSpecNext == ErrorsNext
ErrorsSpec == ErrorsSpecInit /\ [][ErrorsSpecNext]_vars

\* the poll manager
PollSpecInit ==
  /\ PollInit /\ PoolIdle /\ QueueIdle /\ SmIdle /\ RetryIdle /\ ErrorsIdle
  /\ EmitterIdle
PollSpecNext == PollNext
PollSpec == PollSpecInit /\ [][PollSpecNext]_vars

\* the event emitter
EmitterSpecInit ==
  /\ EmitterInit /\ PoolIdle /\ QueueIdle /\ SmIdle /\ RetryIdle /\ ErrorsIdle
  /\ PollIdle
EmitterSpecNext == EmitterNext
EmitterSpec == EmitterSpecInit /\ [][EmitterSpecNext]_vars

\* the operation queue, with the microtask queue draining and every started
\* operation settling
QueueFairSpec ==
  /\ QueueSpecInit /\ [][QueueSpecNext]_vars
  /\ \A i \in OpIds : WF_vars(Turn(i))
  /\ \A i \in OpIds : WF_vars(\E ok \in BOOLEAN : Settle(i, ok))
  /\ \A i \in OpIds : WF_vars(Finally(i))

\* ================================================================== claims

\* C1: in every reachable pool state the tracked sessions plus the pending
\* connection attempts number at most maxConnections, and the tracked
\* sessions alone number at most maxConnections.
C1_CapacityInvariant ==
  /\ connectionCount + pendingConnections <= maxConnections
  /\ connectionCount <= maxConnections

\* C2: a reconnect for a key that disconnect(key) was called on while the
\* reconnect was in flight, when it resolves with a session, discards the
\* session: it is not added to the pool and no connect notification is
\* emitted.
C2_DisconnectWins ==
  (last.op = "reconnectResolve" /\ last.flag) =>
     /\ last.result = "discarded"
     /\ last.emits = <<>>
     /\ \A k \in Keys : sessions[k] # last.sess
     /\ handler = NoHandler

\* C3: on each key the operations are started in the order they were
\* enqueued, an operation is started only after every operation enqueued
\* before it on that key has settled, and at most one operation per key is
\* running.
WasStarted(i) == ops[i].st = "running" \/ ops[i].outcome # "none"

C3_SerialOrder ==
  \A k \in QKeys :
    /\ Cardinality({i \in OpIds : ops[i].key = k /\ ops[i].st = "running"}) <= 1
    /\ \A i, j \in OpIds :
         (i < j /\ ops[i].key = k /\ ops[j].key = k /\ WasStarted(j))
           => ops[i].st \in {"settled", "done"}

C3_Witness ==
  \E i, j \in OpIds :
    /\ i < j /\ ops[i].key = ops[j].key
    /\ WasStarted(i) /\ ops[j].st = "running"

\* C4: a connect() call made when the tracked sessions plus the pending
\* attempts equal maxConnections is rejected with the capacity error, does
\* not call the adapter and leaves the pool state as it was.
C4_CapacityReject ==
  [][(last'.op = "connect"
        /\ connectionCount + pendingConnections = maxConnections)
      => /\ last'.result = "capacity"
         /\ ~last'.flag
         /\ UNCHANGED <<sessions, adapters, disconnectCleanups,
                        reconnectingDevices, pendingConnections,
                        connectTasks, rtask, teardowns, handler, subs>>]_vars

C4_Witness ==
  /\ last.op = "connect" /\ last.result = "capacity"
  /\ pendingConnections > 0
  /\ connectionCount + pendingConnections = maxConnections

\* C5: of the connect() calls made back to back against a pool that tracks
\* m sessions, at most maxConnections - m are admitted to the adapter, each
\* admitted call takes one unit of the pending counter, and calls are
\* rejected with the capacity error only once the pool is at capacity.
C5_ConcurrentAdmission ==
  [][last'.op = "connect" =>
       /\ connectTasks' > connectTasks =>
            connectTasks' - connectTasks <= maxConnections - connectionCount
       /\ connectTasks' - connectTasks = pendingConnections' - pendingConnections
       /\ connectionCount' = connectionCount
       /\ last'.result \in {"partial", "capacity"} =>
            connectionCount' + pendingConnections' >= maxConnections']_vars

C5_Witness ==
  /\ last.op = "connect" /\ last.result = "partial"
  /\ maxConnections = 2 /\ connectionCount = 1 /\ pendingConnections = 1

\* C6: transition(to) called outside a callback in state `from` succeeds
\* and makes `to` the current state exactly when (from, to) is in the
\* transition table, which is exactly when canTransition(to) is true;
\* otherwise it throws the invalid-transition error and the state is
\* unchanged.
TransitionTable ==
  { <<"disconnected", "connecting">>,
    <<"connecting", "connected">>, <<"connecting", "error">>,
    <<"connecting", "disconnected">>,
    <<"connected", "disconnected">>, <<"connected", "error">>,
    <<"error", "disconnected">>, <<"error", "connecting">> }

C6_TransitionTable ==
  (smlast.op = "transition" /\ ~smlast.nested) =>
     /\ smlast.result = "ok" <=> <<smlast.from, smlast.to>> \in TransitionTable
     /\ canTransition(smlast.from, smlast.to)
          <=> <<smlast.from, smlast.to>> \in TransitionTable
     /\ smlast.result = "ok" => state = smlast.to
     /\ smlast.result # "ok" => smlast.result = "invalid" /\ state = smlast.from

C6_Witness ==
  /\ smlast.op = "transition" /\ ~smlast.nested
  /\ smlast.from = "error" /\ smlast.to = "connecting"
  /\ state = "connecting"

\* C7: while the callbacks of a transition run, every transition(to) call
\* fails with the reentrancy error, whatever the target, and leaves the
\* state unchanged; when the outer transition returns the state is its
\* target.
C7_ReentrancyGuard ==
  /\ (smlast.op = "transition" /\ smlast.nested) =>
        /\ smlast.result = "reentrant"
        /\ state = smlast.from
  /\ smpc # "idle" => state = outer.to
  /\ smlast.op = "return" => state = smlast.to

C7_Witness ==
  /\ smlast.op = "transition" /\ smlast.nested
  /\ smlast.result = "reentrant"
  /\ canTransition(state, smlast.to)

\* C8: when the cancellation signal does not fire and the operation fails
\* with retryable errors on its first n-1 calls and succeeds on call n
\* (1 <= n <= maxAttempts), withRetry resolves with that value, the
\* operation has been called n times and onRetry n-1 times, with attempts
\* 1, .., n-1 in that order and delays of at most maxDelayMs.
SucceedsOnCall(n) ==
  /\ Len(history) = n
  /\ history[n] = "value"
  /\ \A i \in 1..(n - 1) : history[i] = "retryable"

C8_EventualSuccess ==
  \A n \in 1..MaxAttempts :
    (n <= maxAttempts /\ signal # "aborted" /\ SucceedsOnCall(n)) =>
       /\ rpc = "resolved"
       /\ rresult = Result("value", n)
       /\ attemptNumber = n
       /\ Len(retryLog) = n - 1
       /\ \A a \in 1..(n - 1) :
            retryLog[a][1] = a /\ retryLog[a][2] <= maxDelayMs

C8_Witness ==
  /\ maxAttempts = 3 /\ SucceedsOnCall(3) /\ rpc = "resolved"
  /\ Len(retryLog) = 2

\* C9: a failed operation does not keep the operations enqueued after it on
\* its key from getting their turn, and every operation's caller receives
\* that operation's own outcome: the failing one its error, a later one its
\* own value or error.
C9_OwnOutcome ==
  \A i \in OpIds :
    ops[i].outcome # "none" =>
       /\ ops[i].result \in {ops[i].outcome, "abort"}
       /\ ~aborted => ops[i].result = ops[i].outcome

C9_ContinueOnError ==
  /\ []C9_OwnOutcome
  /\ []<>(\A j \in OpIds : ops[j].st # "queued")

C9_Witness ==
  \E i, j \in OpIds :
    /\ ops[j].pred = i
    /\ ops[i].outcome = "error" /\ ops[i].result = "error"
    /\ ops[j].outcome = "value" /\ ops[j].result = "value"

\* C10: every disconnect(key) of a tracked key emits exactly one disconnect
\* notification for the key once the session's teardown has settled,
\* resolved or rejected.
C10_DisconnectEmits ==
  last.op = "teardownSettle" => last.emits = <<<<"disconnect", last.key>>>>

\* C11: an unexpected-disconnect notification from a session whose teardown
\* disconnect(key) has invoked and is still awaiting changes nothing: no
\* disconnect notification is emitted for it, no subscriber runs and no
\* reconnect is started.
C11_RemovedBeforeTeardown ==
  (last.op = "notify" /\ teardowns[last.sess] # NoKey) =>
     /\ last.result \in {"unheard", "ignored"}
     /\ last.emits = <<>>
     /\ handler = NoHandler
     /\ \A k \in Keys : sessions[k] # last.sess

C11_Witness ==
  /\ last.op = "notify" /\ teardowns[last.sess] # NoKey
  /\ autoReconnect
  /\ last.key \in Keys /\ sessions[last.key] # NoSession

\* C12: the pending counter equals the number of connect() calls in flight,
\* so it is 0 whenever none is; and the settling of a connect() whose
\* adapter call failed gives back the one unit the call had taken and
\* changes nothing else: the tracked sessions, the adapters and the
\* subscriptions are as they were and nothing is emitted.
C12_PendingCounter ==
  /\ [](pendingConnections = InFlightConnects)
  /\ [][last'.op = "connectFail" =>
          /\ pendingConnections' = pendingConnections - 1
          /\ last'.emits = <<>>
          /\ UNCHANGED <<sessions, adapters, disconnectCleanups,
                         reconnectingDevices, sessKey, subs, alive, rtask,
                         teardowns, handler>>]_vars

C12_Witness ==
  /\ last.op = "connectFail"
  /\ InFlightConnects = 0 /\ pendingConnections = 0
  /\ Tracked # {}

\* C13: disconnectAll() resolves, also when teardowns of its sessions have
\* rejected; the call removes every tracked key and invokes the teardown of
\* every session that was tracked, and the pool never invokes the teardown of
\* a session a second time.
C13_DisconnectAll ==
  /\ [](last.all \in {"none", "resolved"})
  /\ [](\A s \in SessionIds : tornDown[s] <= 1)
  /\ [][last'.op = "disconnectAll" =>
          /\ \A k \in Keys : sessions'[k] = NoSession
          /\ \A k \in Tracked :
               /\ tornDown[sessions[k]] = 0
               /\ tornDown'[sessions[k]] = 1
               /\ teardowns'[sessions[k]] = k
               /\ sessions[k] \in dall'.awaiting]_vars

C13_Witness ==
  /\ last.op = "teardownSettle" /\ last.result = "rejected"
  /\ last.all = "resolved"
  /\ dall = NoCall

C15_AbortRejectsPending ==
  /\ [][(aborted' /\ ~aborted) =>
          \A i \in OpIds :
            ops[i].st \in {"queued", "running"} =>
               /\ ops'[i].result = "abort"
               /\ ops'[i].st = ops[i].st]_vars
  /\ [][\A i \in OpIds :
          ops[i].result = "abort" => ops'[i].result = "abort"]_vars
  /\ [](\A i \in OpIds :
          (aborted /\ ops[i].st = "running") => <>(ops[i].outcome # "none"))

C15_Witness ==
  /\ aborted
  /\ \E i \in OpIds :
       /\ ops[i].outcome = "value" /\ ops[i].result = "abort"
  /\ \E j \in OpIds :
       /\ ops[j].st = "queued" /\ ops[j].result = "abort"

\* C16: an enqueue call made once the signal has fired or clear() has been
\* called rejects with AbortError and leaves the lanes, the depths and the
\* operations as they were.
C16_RefusedEnqueue ==
  [][(qlast'.op = "enqueue" /\ ((hasSignal /\ aborted) \/ cleared)) =>
       /\ qlast'.result = "abort"
       /\ UNCHANGED <<queues, queueDepths, ops>>]_vars

C16_Witness ==
  /\ qlast.op = "enqueue" /\ qlast.result = "abort"
  /\ cleared /\ ~aborted
  /\ \E i \in OpIds : ops[i].st = "running"

\* C17: when a call of the operation fails with an error that isRetryable
\* rejects, withRetry rejects in that same step whatever number of attempts
\* is left: onRetry is not called for that failure, no delay is entered, and
\* once withRetry has rejected the operation is never called again.
C17_NonRetryableStops ==
  /\ [][(rpc = "attempt" /\ history' = Append(history, "fatal")) =>
          /\ rpc' = "rejected"
          /\ retryLog' = retryLog
          /\ attemptNumber' = attemptNumber
          /\ ~opRunning']_vars
  /\ [][rpc = "rejected" =>
          /\ rpc' = "rejected"
          /\ attemptNumber' = attemptNumber
          /\ (opRunning' => opRunning)]_vars

C17_Witness ==
  /\ maxAttempts = 3 /\ signal # "aborted"
  /\ history = <<"retryable", "fatal">>
  /\ rpc = "rejected" /\ Len(retryLog) = 1

\* C18: the operation is never called more than maxAttempts times; when the
\* cancellation signal does not fire and every call fails with a retryable
\* error, the operation has been called exactly maxAttempts times, onRetry
\* exactly maxAttempts - 1 times (for attempts 1 .. maxAttempts - 1, not for
\* the last failure), and withRetry rejects at the last failure without
\* entering another delay.
AllRetryable(n) ==
  /\ Len(history) = n
  /\ \A i \in 1..n : history[i] = "retryable"

C18_AttemptsBounded ==
  /\ maxAttempts >= 1 => attemptNumber <= maxAttempts
  /\ Len(history) <= attemptNumber
  /\ (maxAttempts >= 1 /\ signal # "aborted" /\ AllRetryable(maxAttempts)) =>
       /\ rpc = "rejected"
       /\ ~opRunning
       /\ attemptNumber = maxAttempts
       /\ Len(retryLog) = maxAttempts - 1
       /\ \A a \in 1..(maxAttempts - 1) : retryLog[a][1] = a

C18_Witness ==
  /\ maxAttempts = 3 /\ signal # "aborted" /\ AllRetryable(3)
  /\ rpc = "rejected" /\ Len(retryLog) = 2

\* C19: whenever withRetry rejects because the attempts are used up or
\* because an attempt's error is not retryable, the caller receives the
\* error that the operation's last call raised, itself and not another
\* error built in its place.
C19_FinalErrorSurfaced ==
  (rpc = "rejected" /\ maxAttempts >= 1 /\ signal # "aborted") =>
     rresult = Result("operationError", Len(history))

\* C20: with maxAttempts below 1, zero or negative, withRetry rejects with a
\* RangeError before anything else and the operation is never called.
C20_RangeError ==
  maxAttempts < 1 =>
     /\ attemptNumber = 0 /\ history = <<>> /\ ~opRunning
     /\ rpc \in {"start", "rejected"}
     /\ rpc = "rejected" => rresult = Result("RangeError", 0)

C20_Witness ==
  /\ maxAttempts = -1 /\ signal = "aborted"
  /\ rpc = "rejected" /\ rresult = Result("RangeError", 0)

\* C21 (as stated): whenever the signal is already aborted when withRetry is
\* called, withRetry rejects with an AbortError.
C21_AbortedAtCall ==
  (signal = "aborted" /\ attemptNumber = 0 /\ rpc # "start") =>
     rresult = Result("AbortError", 0)

\* C21 (amended): when the signal is already aborted when withRetry is
\* called with maxAttempts >= 1, withRetry rejects with an AbortError in its
\* first step and the operation is never called, then or later.
C21_AbortedBeforeStart ==
  /\ [][(rpc = "start" /\ signal = "aborted" /\ maxAttempts >= 1) =>
          /\ rpc' = "rejected"
          /\ rresult' = Result("AbortError", 0)
          /\ attemptNumber' = 0 /\ ~opRunning' /\ history' = <<>>]_vars
  /\ [][(rpc = "rejected" /\ attemptNumber = 0) =>
          /\ attemptNumber' = 0 /\ ~opRunning' /\ history' = <<>>]_vars

C21_Witness ==
  /\ maxAttempts = 3 /\ signal = "aborted"
  /\ rpc = "rejected" /\ rresult = Result("AbortError", 0)
  /\ attemptNumber = 0 /\ history = <<>>

\* C22: when the signal fires during the delay after the k-th failed call,
\* withRetry rejects with an AbortError in that step, and the operation is
\* not called a (k+1)-th time.
C22_AbortDuringDelay ==
  /\ [][(rpc = "delay" /\ signal = "idle" /\ signal' = "aborted") =>
          /\ rpc' = "rejected"
          /\ rresult' = Result("AbortError", 0)
          /\ attemptNumber' = attemptNumber
          /\ ~opRunning']_vars
  /\ [][(rpc = "rejected" /\ signal = "aborted") =>
          /\ attemptNumber' = attemptNumber
          /\ (opRunning' => opRunning)]_vars

MatchesRefusal(e) == \E p \in nonRetryablePatterns : Includes(e, p)
MatchesTransient(e) == \E p \in retryablePatterns : Includes(e, p)
Cancelled(e) == e.class = "AbortError" \/ e.name = "AbortError"
TimedOut(e) == e.class = "TimeoutError" \/ e.name = "TimeoutError"

C24_RefusedNeverRetryable ==
  (verdict # "unknown" /\ MatchesRefusal(error)) => verdict = "fatal"

\* C24 (amended): the default predicate returns true only for timeouts and
\* for errors that match a connectivity phrase; an AbortError is never
\* retryable; an error that is not a timeout and matches a cancellation,
\* permission or not-found phrase is not retryable even when it also matches
\* a connectivity phrase; an error that is no timeout and matches no phrase
\* is not retryable; a timeout that is not an AbortError is retryable
\* whatever its message says.
C24_Classification ==
  verdict # "unknown" =>
    /\ verdict = "retryable" => (TimedOut(error) \/ MatchesTransient(error))
    /\ Cancelled(error) => verdict = "fatal"
    /\ (MatchesRefusal(error) /\ ~TimedOut(error)) => verdict = "fatal"
    /\ (~TimedOut(error) /\ ~MatchesRefusal(error) /\ ~MatchesTransient(error))
         => verdict = "fatal"
    /\ (TimedOut(error) /\ ~Cancelled(error)) => verdict = "retryable"

C24_Witness ==
  /\ verdict = "fatal"
  /\ error.class = "Error" /\ error.name = "NetworkError"
  /\ error.message = {"not found", "gatt"}

\* C25: when transition() returns from a successful transition during which
\* no callback changed the registrations, every callback registered at its
\* start has been called exactly once, in registration order, with the
\* transition's (from, to), also after a callback that threw; transition()
\* has returned normally and the state is the new state.
C25_CallbacksDelivered ==
  (smlast.op = "return" /\ ~delivery.touched) =>
     /\ smlast.result = "ok"
     /\ state = smlast.to
     /\ Len(delivery.calls) = Len(delivery.registered)
     /\ \A i \in 1..Len(delivery.calls) :
          /\ delivery.calls[i].cb = delivery.registered[i]
          /\ delivery.calls[i].from = smlast.from
          /\ delivery.calls[i].to = smlast.to

C25_Witness ==
  /\ smlast.op = "return" /\ ~delivery.touched
  /\ state = "connecting" /\ smlast.from = "disconnected"
  /\ Len(delivery.calls) = 2
  /\ delivery.calls[1].threw /\ ~delivery.calls[2].threw

\* C26: the reentrancy guard is held exactly while a transition's callbacks
\* are being delivered: it is released when transition() has returned, also
\* after a callback threw, and a transition requested outside of any
\* callback is never refused as reentrant: it succeeds exactly when the table
\* allows it.
C26_GuardReleased ==
  /\ isTransitioning = (smpc # "idle")
  /\ (smlast.op = "transition" /\ ~smlast.nested) =>
       smlast.result =
         IF canTransition(smlast.from, smlast.to) THEN "ok" ELSE "invalid"

C26_Witness ==
  /\ smlast.op = "transition" /\ ~smlast.nested /\ smlast.result = "ok"
  /\ delivery.prior = "thrown"

\* C27: in every reachable queue state getQueueDepth(k) is at least 0 for
\* every key and 0 for a key without a record, every depth record holds at
\* least 1, and a key that has a lane has a depth record.
C27_DepthNonNegative ==
  /\ \A k \in QKeys :
       /\ getQueueDepth(k) >= 0
       /\ k \notin DOMAIN queueDepths => getQueueDepth(k) = 0
  /\ \A k \in DOMAIN queueDepths : queueDepths[k] >= 1
  /\ DOMAIN queues \subseteq DOMAIN queueDepths

C27_Witness ==
  /\ ~cleared
  /\ "X" \notin DOMAIN queueDepths /\ "X" \notin DOMAIN queues
  /\ \E i \in OpIds : ops[i].key = "X" /\ ops[i].st = "done"
  /\ getQueueDepth("Y") = 2

\* C28: when the links of all the operations enqueued for a key have
\* finished, the key's depth is 0 and its lane and depth record are gone;
\* and with the lanes running, once the results of all the operations
\* enqueued for a key are settled (value, error, or AbortError from the
\* signal or from clear()), that state is reached.
Enqueued(k) == {i \in OpIds : ops[i].st # "free" /\ ops[i].key = k}
LaneGone(k) ==
  getQueueDepth(k) = 0 /\ k \notin DOMAIN queues /\ k \notin DOMAIN queueDepths

EarlierOnKey(i) ==
  {j \in OpIds : j < i /\ ops[j].st # "free" /\ ops[j].key = ops[i].key}

C29_IndependentLanes ==
  \A i \in OpIds :
    (ops[i].st = "queued" /\ \A j \in EarlierOnKey(i) : ops[j].st = "done")
      => ENABLED Turn(i)

C29_Witness ==
  \E i, j \in OpIds :
    /\ i < j
    /\ ops[i].key = "X" /\ ops[i].st = "running"
    /\ ops[j].key = "Y" /\ ops[j].st = "done" /\ ops[j].result = "value"

\* C30: an unexpected-disconnect notification that reaches handleDisconnect
\* for a tracked key removes the entry and its subscription and emits one
\* disconnect notification for that key; when handleDisconnect goes on after
\* the emit, it starts one reconnect attempt for that key if autoReconnect is
\* set and the key's adapter can reconnect, and none otherwise; a
\* notification for a key that is not tracked changes nothing and emits
\* nothing.
Heard(step) == step.op = "notify" /\ step.result # "unheard"
Started == {r \in ReconnectIds : rtask'[r] # rtask[r]}

C30_UnexpectedDisconnect ==
  /\ [][(Heard(last') /\ sessions[last'.key] # NoSession) =>
          /\ last'.result = "removed"
          /\ last'.emits = <<(<<"disconnect", last'.key>>)>>
          /\ sessions' = [sessions EXCEPT ![last'.key] = NoSession]
          /\ disconnectCleanups'[last'.key] = NoSession
          /\ handler' = [type |-> "notify", key |-> last'.key]]_vars
  /\ [][(handler.type = "notify" /\ handler' = NoHandler) =>
          IF autoReconnect /\ adapters[handler.key] = "reconnectable"
          THEN /\ Cardinality(Started) = 1
               /\ \A r \in Started :
                    /\ rtask[r].st = "idle"
                    /\ rtask'[r].st = "inflight"
                    /\ rtask'[r].key = handler.key
               /\ handler.key \in reconnectingDevices'
          ELSE rtask' = rtask /\ reconnectingDevices' = reconnectingDevices]_vars
  /\ [][(Heard(last') /\ sessions[last'.key] = NoSession) =>
          /\ last'.result = "ignored"
          /\ last'.emits = <<>>
          /\ UNCHANGED <<sessions, adapters, disconnectCleanups,
                         reconnectingDevices, pendingConnections, rtask,
                         handler>>]_vars

C30_Witness ==
  /\ last.op = "notifyReturn" /\ last.result = "reconnect"
  /\ sessions[last.key] = NoSession
  /\ Cardinality({r \in ReconnectIds :
                    rtask[r].st = "inflight" /\ rtask[r].key = last.key}) = 1

C32_UnknownKey ==
  [][\A k \in Keys :
       (sessions[k] = NoSession /\ DisconnectStart(k)) =>
          /\ last'.op = "disconnect" /\ last'.result = "noop"
          /\ last'.emits = <<>>
          /\ sessions' = sessions
          /\ adapters' = adapters
          /\ disconnectCleanups' = disconnectCleanups
          /\ teardowns' = teardowns
          /\ tornDown' = tornDown
          /\ handler' = handler]_vars

\* a disconnect returned at once while the teardown of an earlier disconnect
\* is still pending and no session is tracked
C32_Witness ==
  /\ last.op = "disconnect" /\ last.result = "noop"
  /\ \A k \in Keys : sessions[k] = NoSession
  /\ \E s \in SessionIds : teardowns[s] # NoKey

\* C33: whenever no handler is running and no auto-reconnect is in flight,
\* an adapter handle or an unexpected-disconnect subscription is held for a
\* key only if a session is tracked under that key.
C33_EntryParts ==
  (handler = NoHandler /\ \A r \in ReconnectIds : rtask[r].st = "idle") =>
     \A k \in Keys :
        (adapters[k] # NoAdapter \/ disconnectCleanups[k] # NoSession) =>
           sessions[k] # NoSession

\* C34: a connect notification is emitted for a key only if the last
\* notification for that key was not a connect, and a disconnect notification
\* only if it was a connect.
C34_Alternation ==
  [][\A k \in Keys :
       /\ last'.emits = <<<<"connect", k>>>> => last.notified[k] # "connect"
       /\ last'.emits = <<<<"disconnect", k>>>> => last.notified[k] = "connect"]_vars

\* C35: an unexpected-disconnect notification from a session that is not the
\* one tracked under its key removes no session, emits nothing and runs no
\* handler (so starts no reconnect).
C35_StaleIgnored ==
  [][(Heard(last') /\ sessions[last'.key] # last'.sess) =>
        /\ sessions' = sessions
        /\ last'.emits = <<>>
        /\ handler' = handler]_vars

\* C36: every tracked session is stored under the key it reports itself.
C36_OwnKey ==
  \A k \in Keys : sessions[k] # NoSession => sessKey[sessions[k]] = k

\* C37: the depth of a key is the number of operations enqueued on it that
\* are waiting or running, plus at most those that have settled and whose
\* link has not yet run its finally callback.
Unsettled(k) == {i \in Enqueued(k) : ops[i].st \in {"queued", "running"}}
Unfinished(k) == {i \in Enqueued(k) : ops[i].st # "done"}

C37_DepthIsPending ==
  \A k \in QKeys :
    /\ Cardinality(Unsettled(k)) <= getQueueDepth(k)
    /\ getQueueDepth(k) <= Cardinality(Unfinished(k))

\* C38: every callback invoked during the delivery of a transition was
\* registered when the transition started.
C38_RegisteredAtStart ==
  [][smlast'.op = "invoke" =>
       \E i \in 1..Len(delivery.registered) :
          delivery.registered[i] = running']_vars

\* C39: while a session is polling, the success or failure of a poll that an
\* earlier session issued leaves the timer and the session counter as they
\* are, and polls are issued for the current session only.
C39_NoInterference ==
  /\ [][\A s \in PollIds :
          (isPolling /\ s # sessionId /\ (PollResolve(s) \/ PollReject(s))) =>
             /\ pollTimer' = pollTimer
             /\ sessionId' = sessionId]_vars
  /\ [][plast'.op = "poll" => plast'.sess = sessionId]_vars

\* C40: a once() wrapper that an emit has run is in no listener set
\* afterwards, and an emit(event) invokes no callback that was taken off that
\* event, by off(event, cb) or by the function once() returned, when its one
\* registration there was made with once() and none was made since.
C40_OnceAndOff ==
  /\ [][\A e \in EventNames :
          (Emit(e) /\ e \in DOMAIN listeners) =>
             \A i \in 1..Len(listeners'[e]) : IsPlain(listeners'[e][i])]_vars
  /\ [][\A e \in EventNames, c \in Handlers :
          (Emit(e) /\ <<e, c>> \in removed) =>
             \A i \in 1..Len(elast'.invoked) : elast'.invoked[i] # c]_vars
====
